---- MODULE Spec2Model ----
(***************************************************************************)
(* Model of src/app.py: the moment selector detect_viral_moments, the      *)
(* background job process_video_job written at the granularity of its      *)
(* individual writes to the job record, and the two HTTP handlers that     *)
(* create a job (process_video) and read it (get_status).                  *)
(*                                                                         *)
(* Time.  The code works on float seconds.  The model keeps every time as  *)
(* an integer number of 1/Unit seconds, Unit being the least common        *)
(* multiple of the possible values of num_clips, so that the true division *)
(* duration / num_clips of the fallback path is exact.  Inputs lie on a    *)
(* grid of 15 seconds, on which the 45 s and 75 s limits of the duration   *)
(* gate are hit exactly.                                                   *)
(*                                                                         *)
(* Text.  A caption text is modelled by what the scorer reads of it: the   *)
(* number of distinct VIRAL_KEYWORDS found in it, whether it contains '?'  *)
(* and whether it contains '!'.  Scores are kept in hundredths (0.3 = 30).  *)
(***************************************************************************)
EXTENDS Integers, Sequences, FiniteSets, TLC

VARIABLES
    MAX_CLIPS,      \* module global MAX_CLIPS (configuration)
    jobs,           \* module global jobs: job id -> job record (a dict)
    pc,             \* position of the job thread (line about to execute)
    duration,       \* local of process_video_job
    transcript,     \* local of process_video_job
    moments,        \* local of process_video_job
    idx,            \* local of process_video_job: loop counter
    created_clips,  \* local of process_video_job
    successes,      \* the values create_clip returned so far, in call order
    exc,            \* the exception the except clause caught, "" if none
    response        \* body of the last HTTP response sent

vars == << MAX_CLIPS, jobs, pc, duration, transcript, moments, idx,
           created_clips, successes, exc, response >>

----------------------------------------------------------------------------
(* Bounds of the model *)

\* largest configured clip limit explored
MaxClipsCfg == 2
\* time horizon, in 15-second ticks
MaxTick == 9
\* longest transcript given to the selector
MaxSegs == 3

Min(a, b) == IF a < b THEN a ELSE b

RECURSIVE Gcd(_, _)
Gcd(a, b) == IF b = 0 THEN a ELSE Gcd(b, a % b)

RECURSIVE LcmUpTo(_)
LcmUpTo(n) == IF n <= 1 THEN 1 ELSE LET l == LcmUpTo(n - 1) IN (l * n) \div Gcd(l, n)

\* number of model time units in one second
Unit == LcmUpTo(MaxClipsCfg)

Secs(n) == n * Unit

Range(s) == {s[i] : i \in DOMAIN s}

----------------------------------------------------------------------------
(* Inputs *)

\* caption texts: "... ?" (0.2), "<keyword> ..." (0.3), "... ?!" (0.35)
Texts == { [kw |-> 0, q |-> TRUE,  e |-> FALSE],
           [kw |-> 1, q |-> FALSE, e |-> FALSE],
           [kw |-> 0, q |-> TRUE,  e |-> TRUE] }

\* cues of 15 seconds
Segments == { [start |-> Secs(15 * s), end |-> Secs(15 * (s + 1)), text |-> t] :
                 s \in 0..(MaxTick - 1), t \in Texts }

\* cues in file order, start times non-decreasing
TranscriptsOfLen(k) ==
    { t \in [1..k -> Segments] : \A i \in 1..(k - 1) : t[i].start <= t[i + 1].start }

Transcripts == UNION { TranscriptsOfLen(k) : k \in 0..MaxSegs }

\* what parse_srt returns inside a job: no captions, or one cue
JobTranscripts == TranscriptsOfLen(0) \cup TranscriptsOfLen(1)

\* what ffprobe can report; 0 also stands for a failed probe
Durations == { Secs(15 * d) : d \in 0..MaxTick }

----------------------------------------------------------------------------
(* detect_viral_moments *)

\* 'Interval clip'
IntervalText == [kw |-> 0, q |-> FALSE, e |-> FALSE]

Score(text) ==
    30 * text.kw + (IF text.q THEN 20 ELSE 0) + (IF text.e THEN 15 ELSE 0)

\* variant: the last window is dropped (range(num_clips - 1))
NumClips_Short(d) == Min(d \div Secs(60), MAX_CLIPS) - 1

NumClips(d) == Min(d \div Secs(60), MAX_CLIPS)

FallbackStart(i, d, n) == i * (d \div n)

FallbackMoments(d) ==
    LET num_clips == NumClips(d)
    IN  [ k \in 1..num_clips |->
            LET start == FallbackStart(k - 1, d, num_clips)
            IN  [start |-> start, end |-> Min(start + Secs(60), d),
                 score |-> 50, text |-> IntervalText] ]

ClampEnd(start, d) == IF start + Secs(60) > d THEN d ELSE start + Secs(60)

\* the loop of lines 143-146: the first j >= i with transcript[j].end >= end_time
RECURSIVE SnapEnd(_, _, _)
SnapEnd(t, j, end_time) ==
    IF j > Len(t) THEN end_time
    ELSE IF t[j].end >= end_time THEN t[j].end
    ELSE SnapEnd(t, j + 1, end_time)

EndTime(t, i, d) == SnapEnd(t, i, ClampEnd(t[i].start, d))

Potential(score) == score >= 30

\* variant: the upper limit of the gate is not tested
DurationGate_NoUpper(clip_duration) == Secs(45) <= clip_duration

DurationGate(clip_duration) ==
    Secs(45) <= clip_duration /\ clip_duration <= Secs(75)

RECURSIVE Candidates(_, _, _)
Candidates(t, i, d) ==
    IF i > Len(t) THEN << >>
    ELSE LET segment == t[i]
             score == Score(segment.text)
             end_time == EndTime(t, i, d)
             rest == Candidates(t, i + 1, d)
         IN  IF Potential(score) /\ DurationGate(end_time - segment.start)
             THEN << [start |-> segment.start, end |-> end_time,
                      score |-> score, text |-> segment.text] >> \o rest
             ELSE rest

\* variant: a later candidate of equal score is put first (unstable sort)
RECURSIVE InsertByScore_Unstable(_, _)
InsertByScore_Unstable(s, m) ==
    IF s = << >> THEN << m >>
    ELSE IF Head(s).score > m.score
         THEN << Head(s) >> \o InsertByScore_Unstable(Tail(s), m)
    ELSE << m >> \o s

\* insert m behind every element whose score is >= its own (stable)
RECURSIVE InsertByScore(_, _)
InsertByScore(s, m) ==
    IF s = << >> THEN << m >>
    ELSE IF Head(s).score >= m.score THEN << Head(s) >> \o InsertByScore(Tail(s), m)
    ELSE << m >> \o s

\* moments.sort(key=score, reverse=True): descending, equal keys keep their order
RECURSIVE SortByScore(_)
SortByScore(s) ==
    IF s = << >> THEN << >>
    ELSE InsertByScore(SortByScore(SubSeq(s, 1, Len(s) - 1)), s[Len(s)])

\* variant: only tests whether the moment starts inside the selected one
Overlap_StartInside(moment, selected) ==
    moment.start < selected.end /\ moment.start >= selected.start

Overlap(moment, selected) ==
    moment.start < selected.end /\ moment.end > selected.start

LimitReached(filtered) == Len(filtered) >= MAX_CLIPS

RECURSIVE Filter(_, _, _)
Filter(ms, k, filtered) ==
    IF k > Len(ms) THEN filtered
    ELSE LET moment == ms[k]
             overlap == \E n \in DOMAIN filtered : Overlap(moment, filtered[n])
             next == IF ~overlap THEN Append(filtered, moment) ELSE filtered
         IN  IF LimitReached(next) THEN next ELSE Filter(ms, k + 1, next)

\* variant: an empty primary selection is replaced by the interval windows
detect_viral_moments_Fallback(t, d) ==
    IF t = << >> \/ d = 0
    THEN FallbackMoments(d)
    ELSE LET filtered == Filter(SortByScore(Candidates(t, 1, d)), 1, << >>)
         IN  IF filtered = << >> THEN FallbackMoments(d) ELSE filtered

detect_viral_moments(t, d) ==
    IF t = << >> \/ d = 0
    THEN FallbackMoments(d)
    ELSE Filter(SortByScore(Candidates(t, 1, d)), 1, << >>)

----------------------------------------------------------------------------
(* The selector alone: inputs drawn at Init, one call *)

NoResponse == [code |-> 0]

InitSelect ==
    /\ MAX_CLIPS \in 0..MaxClipsCfg
    /\ jobs = << >>
    /\ pc = "call"
    /\ duration \in Durations
    /\ transcript \in Transcripts
    /\ moments = << >>
    /\ idx = 0
    /\ created_clips = << >>
    /\ successes = << >>
    /\ exc = ""
    /\ response = NoResponse

CallDetect ==
    /\ pc = "call"
    /\ moments' = detect_viral_moments(transcript, duration)
    /\ pc' = "return"
    /\ UNCHANGED << MAX_CLIPS, jobs, duration, transcript, idx, created_clips,
                    successes, exc, response >>

NextSelect == CallDetect

SpecSelect == InitSelect /\ [][NextSelect]_vars

----------------------------------------------------------------------------
(* Properties of detect_viral_moments, checked under SpecSelect *)

Returned == pc = "return"

PrimaryPath == transcript # << >> /\ duration # 0

\* the candidates that pass the score threshold and the duration gate, in
\* transcript order
Admitted == Candidates(transcript, 1, duration)

\* C1: no two distinct moments of the returned list overlap, on the primary
\* path and on the fallback path.
C1_NonOverlap ==
    Returned =>
        \A a, b \in DOMAIN moments :
            a # b => ~(moments[a].start < moments[b].end
                       /\ moments[a].end > moments[b].start)

\* two moments were returned and a third admitted candidate was left out
C1_Witness ==
    /\ Returned /\ PrimaryPath
    /\ Len(moments) = 2
    /\ Len(Admitted) = 3

\* C5: every moment of the primary path lasts between 45 and 75 seconds,
\* also when its end was clamped to the duration and snapped to a cue end.
C5_DurationGate ==
    (Returned /\ PrimaryPath) =>
        \A n \in DOMAIN moments :
            /\ Secs(45) <= moments[n].end - moments[n].start
            /\ moments[n].end - moments[n].start <= Secs(75)

\* a returned moment whose nominal end lay past the duration (clamped) and
\* whose end was then moved forward to a cue end past the duration (snapped)
C5_Witness ==
    /\ Returned /\ PrimaryPath
    /\ \E n \in DOMAIN moments :
          /\ moments[n].start + Secs(60) > duration
          /\ moments[n].end > duration

\* C8: the returned list holds at most MAX_CLIPS moments, for every limit
\* MAX_CLIPS >= 0.
C8_AtMostMaxClips == Returned => Len(moments) <= MAX_CLIPS

\* in the list A of candidates, candidate i is considered before candidate
\* j: higher score, or equal score and earlier in the transcript
RanksBefore(A, i, j) ==
    \/ A[i].score > A[j].score
    \/ A[i].score = A[j].score /\ i < j

\* the moments of M that rank before candidate i of A
SelectedBefore(A, M, i) ==
    { A[j] : j \in { k \in DOMAIN A : RanksBefore(A, k, i) /\ A[k] \in M } }

\* C9: the primary path returns admitted candidates only, in ranking order
\* (score descending, equal scores in transcript order), and an admitted
\* candidate is absent only if it overlaps a selected moment that ranks before
\* it or MAX_CLIPS moments were selected before it was considered.
C9_GreedyByRank ==
    (Returned /\ PrimaryPath) =>
        LET A == Admitted
            M == Range(moments)
        IN  /\ M \subseteq Range(A)
            /\ \A p, q \in DOMAIN moments :
                  p < q => \E i, j \in DOMAIN A :
                              /\ A[i] = moments[p]
                              /\ A[j] = moments[q]
                              /\ RanksBefore(A, i, j)
            /\ \A i \in DOMAIN A :
                  A[i] \notin M =>
                     \/ \E m \in SelectedBefore(A, M, i) : Overlap(A[i], m)
                     \/ Cardinality(SelectedBefore(A, M, i)) >= MAX_CLIPS

\* two overlapping candidates of equal score: the earlier one was selected,
\* the later one left out, and the limit was not what excluded it
C9_Witness ==
    /\ Returned /\ PrimaryPath
    /\ Len(moments) < MAX_CLIPS
    /\ LET A == Admitted
       IN  \E i, j \in DOMAIN A :
              /\ i < j
              /\ A[i].score = A[j].score
              /\ A[i] \in Range(moments)
              /\ A[j] \notin Range(moments)

----------------------------------------------------------------------------
(* The web application: process_video, the job thread, get_status *)

\* the uuid4 of the one job followed
JobId == "job-1"

Urls == { "", "https://example.com/v", "https://youtu.be/v" }

IsYoutube(url) == url = "https://youtu.be/v"

Init ==
    /\ MAX_CLIPS \in 1..MaxClipsCfg
    /\ jobs = << >>
    /\ pc = "idle"
    /\ duration = 0
    /\ transcript = << >>
    /\ moments = << >>
    /\ idx = 0
    /\ created_clips = << >>
    /\ successes = << >>
    /\ exc = ""
    /\ response = NoResponse

locals == << duration, transcript, moments, idx, created_clips, successes >>

\* jobs[job_id][key] = value
SetItem(key, value) == jobs' = [jobs EXCEPT ![JobId] = (key :> value) @@ @]

\* a statement inside the try block raises: control moves to the except clause
Raise(message) == exc' = message /\ pc' = "l339"

\* POST /api/process
process_video(url) ==
    /\ JobId \notin DOMAIN jobs
    /\ IF url = ""
       THEN /\ response' = [code |-> 400, body |-> [error |-> "No URL provided"]]
            /\ UNCHANGED << jobs, pc >>
       ELSE IF ~IsYoutube(url)
       THEN /\ response' = [code |-> 400, body |-> [error |-> "Invalid YouTube URL"]]
            /\ UNCHANGED << jobs, pc >>
       ELSE /\ jobs' = (JobId :> [id |-> JobId, url |-> url, status |-> "queued",
                                  progress |-> 0, created_at |-> "ts"])
            /\ pc' = "l242"
            /\ response' = [code |-> 200, body |-> [job_id |-> JobId]]
    /\ UNCHANGED << MAX_CLIPS, locals, exc >>

\* GET /api/status/<job_id>
get_status(job_id) ==
    /\ response' = IF job_id \notin DOMAIN jobs
                   THEN [code |-> 404, body |-> [error |-> "Job not found"]]
                   ELSE [code |-> 200, body |-> jobs[job_id]]
    /\ UNCHANGED << MAX_CLIPS, jobs, pc, locals, exc >>

L242 ==
    /\ pc = "l242"
    /\ SetItem("status", "downloading")
    /\ pc' = "l243"
    /\ UNCHANGED << MAX_CLIPS, locals, exc, response >>

L243 ==
    /\ pc = "l243"
    /\ SetItem("progress", 10)
    /\ pc' = "l263"
    /\ UNCHANGED << MAX_CLIPS, locals, exc, response >>

\* yt-dlp: non-zero exit, no .mp4 produced, or a video file
Download ==
    /\ pc = "l263"
    /\ \/ Raise("Command returned non-zero exit status")
       \/ Raise("Download failed")
       \/ pc' = "l272" /\ UNCHANGED exc
    /\ UNCHANGED << MAX_CLIPS, jobs, locals, response >>

L272 ==
    /\ pc = "l272"
    /\ SetItem("status", "analyzing")
    /\ pc' = "l273"
    /\ UNCHANGED << MAX_CLIPS, locals, exc, response >>

L273 ==
    /\ pc = "l273"
    /\ SetItem("progress", 30)
    /\ pc' = "l276"
    /\ UNCHANGED << MAX_CLIPS, locals, exc, response >>

\* get_video_duration and parse_srt
Probe ==
    /\ pc = "l276"
    /\ duration' \in Durations
    /\ transcript' \in JobTranscripts
    /\ pc' = "l283"
    /\ UNCHANGED << MAX_CLIPS, jobs, moments, idx, created_clips, successes, exc,
                    response >>

\* the info file: absent, readable, or not valid JSON
Title ==
    /\ pc = "l283"
    /\ \/ SetItem("video_title", "Video") /\ pc' = "l291" /\ UNCHANGED exc
       \/ Raise("Expecting value") /\ UNCHANGED jobs
    /\ UNCHANGED << MAX_CLIPS, locals, response >>

Detect ==
    /\ pc = "l291"
    /\ moments' = detect_viral_moments(transcript, duration)
    /\ pc' = "l293"
    /\ UNCHANGED << MAX_CLIPS, jobs, duration, transcript, idx, created_clips,
                    successes, exc, response >>

L293 ==
    /\ pc = "l293"
    /\ IF moments = << >>
       THEN Raise("No viral moments detected")
       ELSE pc' = "l296" /\ UNCHANGED exc
    /\ UNCHANGED << MAX_CLIPS, jobs, locals, response >>

L296 ==
    /\ pc = "l296"
    /\ SetItem("status", "creating_clips")
    /\ pc' = "l297"
    /\ UNCHANGED << MAX_CLIPS, locals, exc, response >>

L297 ==
    /\ pc = "l297"
    /\ SetItem("total_clips", Len(moments))
    /\ pc' = "l298"
    /\ UNCHANGED << MAX_CLIPS, locals, exc, response >>

L298 ==
    /\ pc = "l298"
    /\ SetItem("progress", 40)
    /\ pc' = "l306"
    /\ UNCHANGED << MAX_CLIPS, locals, exc, response >>

\* for idx, moment in enumerate(moments, 1)
L306 ==
    /\ pc = "l306"
    /\ IF idx < Len(moments)
       THEN idx' = idx + 1 /\ pc' = "l310"
       ELSE idx' = idx /\ pc' = "l333"
    /\ UNCHANGED << MAX_CLIPS, jobs, duration, transcript, moments, created_clips,
                    successes, exc, response >>

ClipResult(i, moment) ==
    [filename |-> i, duration |-> (moment.end - moment.start) \div Unit,
     preview_text |-> moment.text]

\* variant: a failed render is raised to the job instead of being skipped
CreateClip_Abort ==
    /\ pc = "l310"
    /\ \/ /\ successes' = Append(successes, TRUE)
          /\ created_clips' = Append(created_clips, ClipResult(idx, moments[idx]))
          /\ pc' = "l329"
          /\ UNCHANGED exc
       \/ /\ successes' = Append(successes, FALSE)
          /\ created_clips' = created_clips
          /\ Raise("Command returned non-zero exit status")
    /\ UNCHANGED << MAX_CLIPS, jobs, duration, transcript, moments, idx, response >>

\* create_clip returns True or False (ffmpeg failed), or raises while writing
\* the caption file, which is outside its try block
CreateClip ==
    /\ pc = "l310"
    /\ \/ /\ successes' = Append(successes, TRUE)
          /\ created_clips' = Append(created_clips, ClipResult(idx, moments[idx]))
          /\ pc' = "l329"
          /\ UNCHANGED exc
       \/ /\ successes' = Append(successes, FALSE)
          /\ created_clips' = created_clips
          /\ pc' = "l329"
          /\ UNCHANGED exc
       \/ /\ Raise("No space left on device")
          /\ UNCHANGED << successes, created_clips >>
    /\ UNCHANGED << MAX_CLIPS, jobs, duration, transcript, moments, idx, response >>

\* variant: the base of 40 is left out
ClipProgress_NoBase(i, n) == (i * 50) \div n

\* 40 + int((idx / len(moments)) * 50); the float expression equals the
\* integer one for every len(moments) below 50
ClipProgress(i, n) == 40 + (i * 50) \div n

L329 ==
    /\ pc = "l329"
    /\ SetItem("progress", ClipProgress(idx, Len(moments)))
    /\ pc' = "l330"
    /\ UNCHANGED << MAX_CLIPS, locals, exc, response >>

L330 ==
    /\ pc = "l330"
    /\ SetItem("clips_created", idx)
    /\ pc' = "l306"
    /\ UNCHANGED << MAX_CLIPS, locals, exc, response >>

L333 ==
    /\ pc = "l333"
    /\ SetItem("status", "complete")
    /\ pc' = "l334"
    /\ UNCHANGED << MAX_CLIPS, locals, exc, response >>

L334 ==
    /\ pc = "l334"
    /\ SetItem("progress", 100)
    /\ pc' = "l335"
    /\ UNCHANGED << MAX_CLIPS, locals, exc, response >>

L335 ==
    /\ pc = "l335"
    /\ SetItem("clips", created_clips)
    /\ pc' = "l336"
    /\ UNCHANGED << MAX_CLIPS, locals, exc, response >>

\* variant: the last write of the try block raises
L336_Raises ==
    /\ pc = "l336"
    /\ Raise("Object of type datetime is not serializable")
    /\ UNCHANGED << MAX_CLIPS, jobs, locals, response >>

L336 ==
    /\ pc = "l336"
    /\ SetItem("completed_at", "ts")
    /\ pc' = "done"
    /\ UNCHANGED << MAX_CLIPS, locals, exc, response >>

L339 ==
    /\ pc = "l339"
    /\ SetItem("status", "error")
    /\ pc' = "l340"
    /\ UNCHANGED << MAX_CLIPS, locals, exc, response >>

L340 ==
    /\ pc = "l340"
    /\ SetItem("error", exc)
    /\ pc' = "done"
    /\ UNCHANGED << MAX_CLIPS, locals, exc, response >>

process_video_job ==
    \/ L242 \/ L243 \/ Download \/ L272 \/ L273 \/ Probe \/ Title \/ Detect
    \/ L293 \/ L296 \/ L297 \/ L298 \/ L306 \/ CreateClip \/ L329 \/ L330
    \/ L333 \/ L334 \/ L335 \/ L336 \/ L339 \/ L340

Next ==
    \/ \E url \in Urls : process_video(url)
    \/ \E job_id \in {JobId, "job-2"} : get_status(job_id)
    \/ process_video_job

Spec == Init /\ [][Next]_vars

----------------------------------------------------------------------------
(* Properties of the job, checked under Spec *)

HasJob == JobId \in DOMAIN jobs

Job == jobs[JobId]

Status == IF HasJob THEN Job.status ELSE "none"

Progress == IF HasJob THEN Job.progress ELSE 0

InExcept == pc \in {"l339", "l340"}

\* detect_viral_moments has returned in the job thread
DetectReturned ==
    \/ pc \in {"l293", "l296", "l297", "l298", "l306", "l310", "l329", "l330",
               "l333", "l334", "l335", "l336"}
    \/ pc = "done" /\ "error" \notin DOMAIN Job
    \/ /\ pc \in {"l339", "l340", "done"}
       /\ exc \in {"No viral moments detected", "No space left on device"}

\* the clips list the loop must have built from the outcomes ok[1..k]
RECURSIVE ExpectedClips(_, _, _)
ExpectedClips(ms, ok, k) ==
    IF k = 0 THEN << >>
    ELSE LET before == ExpectedClips(ms, ok, k - 1)
         IN  IF ok[k]
             THEN Append(before, [filename |-> k,
                                  duration |-> (ms[k].end - ms[k].start) \div Unit,
                                  preview_text |-> ms[k].text])
             ELSE before

\* C2: a render that fails (create_clip returns False) does not abort the
\* batch: the loop goes on to the next moment without raising, every moment
\* has been rendered when the job is marked complete, and the final clips
\* list holds exactly the successfully rendered moments, in moment order.
C2_FailureIsolation ==
    /\ [][ successes' = Append(successes, FALSE)
             => pc' = "l329" /\ exc' = exc /\ Status' = "creating_clips" ]_vars
    /\ [](/\ created_clips = ExpectedClips(moments, successes, Len(successes))
          /\ Status = "complete" => Len(successes) = Len(moments)
          /\ (HasJob /\ "clips" \in DOMAIN Job) =>
                Job.clips = ExpectedClips(moments, successes, Len(moments)))

\* the job is complete, the first of two renders failed and the second is in
\* the result
C2_Witness ==
    /\ pc = "done" /\ Status = "complete"
    /\ successes = << FALSE, TRUE >>
    /\ Len(Job.clips) = 1 /\ Job.clips[1].filename = 2

StatusRank(st) ==
    CASE st = "none" -> 0
      [] st = "queued" -> 1
      [] st = "downloading" -> 2
      [] st = "analyzing" -> 3
      [] st = "creating_clips" -> 4
      [] st = "complete" -> 5
      [] st = "error" -> 5

\* C3: the status moves one step forward along queued, downloading,
\* analyzing, creating_clips, complete, or from a non-terminal status to
\* error; complete and error never change again.
C3_StatusForward ==
    [][ \/ Status' = Status
        \/ /\ Status' # "error"
           /\ StatusRank(Status') = StatusRank(Status) + 1
        \/ /\ Status' = "error"
           /\ Status \in {"queued", "downloading", "analyzing", "creating_clips"}
      ]_vars

\* a job that went through every non-terminal status and ended in error
C3_Witness ==
    /\ pc = "done" /\ Status = "error"
    /\ "total_clips" \in DOMAIN Job

\* C4: progress never decreases; it is 0 when queued, 10 once downloading has
\* been entered, 30 once analyzing has been entered, 40 once creating_clips
\* has been entered, 40 + floor(idx*50/n) (within 40..90) after the idx-th of
\* n renders, 100 on complete, and the error transition leaves it unchanged.
C4_ProgressMonotonic ==
    /\ [][ Progress' >= Progress ]_vars
    /\ [][ InExcept => Progress' = Progress ]_vars
    /\ [](/\ Status = "queued" => Progress = 0
          /\ pc \in {"l263", "l272"} => Progress = 10
          /\ pc \in {"l276", "l283", "l291", "l293", "l296"} => Progress = 30
          /\ (pc = "l306" /\ idx = 0) => Progress = 40
          /\ (pc \in {"l330", "l306"} /\ idx > 0) =>
                /\ Progress = 40 + (idx * 50) \div Len(moments)
                /\ 40 <= Progress /\ Progress <= 90
          /\ pc = "l333" => Progress = 90
          /\ (pc = "done" /\ Status = "complete") => Progress = 100)

\* after the first of two renders progress stands at 65
C4_Witness ==
    /\ pc = "l330" /\ idx = 1 /\ Len(moments) = 2
    /\ Progress = 65

\* C6 as stated: with an empty transcript and any duration > 0 the fallback
\* path returns at least one moment and the job does not fail for lack of
\* moments.
C6_FallbackAlwaysProduces ==
    (DetectReturned /\ transcript = << >> /\ duration > 0) =>
        /\ moments # << >>
        /\ exc # "No viral moments detected"

\* C6 amended: with an empty transcript the fallback path returns
\* min(floor(duration/60), MAX_CLIPS) moments; that is at least one exactly
\* when duration >= 60 (MAX_CLIPS being at least 1), and then the job does not
\* fail for lack of moments; for 0 < duration < 60 it returns none and the
\* job ends in error.
C6_FallbackFromSixty ==
    (DetectReturned /\ transcript = << >>) =>
        /\ Len(moments) = (IF duration \div Secs(60) < MAX_CLIPS
                           THEN duration \div Secs(60) ELSE MAX_CLIPS)
        /\ duration >= Secs(60) =>
              /\ Len(moments) >= 1
              /\ exc # "No viral moments detected"
        /\ (duration < Secs(60) /\ pc = "done") =>
              /\ Status = "error"
              /\ Job.error = "No viral moments detected"

\* a job without captions on a video of at least 60 s that completed
C6_Witness ==
    /\ pc = "done" /\ Status = "complete"
    /\ transcript = << >> /\ duration >= Secs(60)
    /\ Len(Job.clips) >= 1

\* no cue of the transcript yields an admitted candidate
NoneAdmitted ==
    \A i \in DOMAIN transcript :
        \/ Score(transcript[i].text) < 30
        \/ EndTime(transcript, i, duration) - transcript[i].start < Secs(45)
        \/ EndTime(transcript, i, duration) - transcript[i].start > Secs(75)

\* C7: with a non-empty transcript and a non-zero duration, when no cue
\* yields an admitted candidate the selector returns the empty list (no
\* interval windows), and the job goes from analyzing to error with the
\* message captured, without entering creating_clips or rendering a clip.
C7_NoMomentsIsError ==
    (DetectReturned /\ transcript # << >> /\ duration # 0 /\ NoneAdmitted) =>
        /\ moments = << >>
        /\ Status \in {"analyzing", "error"}
        /\ successes = << >>
        /\ "total_clips" \notin DOMAIN Job
        /\ InExcept => exc = "No viral moments detected"
        /\ pc = "done" =>
              /\ Status = "error"
              /\ Job.error = "No viral moments detected"

\* captions without an admitted candidate on a video long enough for the
\* interval windows: the job ended in error
C7_Witness ==
    /\ pc = "done" /\ Status = "error"
    /\ transcript # << >> /\ duration >= Secs(60) /\ NoneAdmitted
    /\ Job.error = "No viral moments detected"

\* C10: a status read never returns 'complete' with progress below 100 or
\* without the clips list.
C10_CompleteIsWhole ==
    (response.code = 200 /\ "status" \in DOMAIN response.body
       /\ response.body.status = "complete") =>
        /\ response.body.progress = 100
        /\ "clips" \in DOMAIN response.body

====
